---------------------------- MODULE Spec2Model ----------------------------
(***************************************************************************)
(* A model of urdaemon: the framed game Connection (connection.py), the    *)
(* Topic / EventHub / Server engine (engine.py) and the EAccess login      *)
(* client (simutronics/eaccess.py).                                        *)
(*                                                                         *)
(* The asyncio event loop runs one task at a time and switches tasks only  *)
(* at an await that really suspends.  An action of this model is therefore *)
(* the code a task runs between two suspensions.  Queue() is created with  *)
(* maxsize 0, so Queue.put never suspends; Queue.get suspends exactly when *)
(* the queue is empty; StreamReader.readuntil suspends until a full        *)
(* message, end of file or a transport exception is there.                 *)
(***************************************************************************)
EXTENDS Integers, Sequences, FiniteSets, TLC

VARIABLES
    \* ---- the far end of the game link and the asyncio transport ----
    peer,               \* "open" | "eof" | "eof_partial": what the game server did
    transport,          \* "ok" | "reset" | "error": connection_lost(exc) seen
    inbox,              \* complete framed messages buffered in the StreamReader
    peerSent,           \* history: every framed message the game server sent
    outWire,            \* history: the byte strings handed to the transport
    \* ---- Connection (connection.py) ----
    conn_open,          \* Connection._open
    writerClosing,      \* writer.is_closing()
    closeCalls,         \* how many times Connection.close was called
    closeRaised,        \* whether a call of Connection.close raised
    \* ---- EventHub / Topic / Server (engine.py) ----
    game_event_raw, fe_story_view, game_server_write, fe_user_input,
    subscribers,        \* Topic.subscribers of Server.game_event_topic
    pc,                 \* where each of the three loops of Server.run is
    event,              \* each loop's local variable `event`
    runState,           \* "idle" | "running" | "returned" | "raised"
    \* ---- the command source (ui/mudconsole.py UserInput) ----
    userSubmitted,      \* history: every text put on fe_user_input
    forwarded,          \* history: every text put on game_server_write
    srcStopped,         \* the command source will submit nothing more
    \* ---- the login sequence (simutronics/eaccess.py) ----
    apc,                \* where authenticate() is
    link,               \* "none" | "open" | "closed": the stream to EAccess
    cred,               \* the Credentials authenticate() was called with
    reqLog,             \* history: the requests written to the link
    outstanding,        \* requests written whose response is not yet read
    nextParams,         \* the params of the request about to be written
    resp,               \* the latest Response, <<>> or <<[action, body]>>,
                        \* with the line it was made from
    characters,         \* <<>> or <<the dict get_characters returned>>
    authErr,            \* "none" or the exception authenticate() raised
    session,            \* <<>> or <<the SessionInfo returned>>
    \* ---- several Servers in one process (engine.py) ----
    hubs,               \* per Server: <<>> or <<its EventHub: field -> Queue>>
    topics,             \* per Topic: Topic.subscribers, a list of Queues
    channels,           \* per Queue object: its contents
    calls,              \* per Topic: how many publish calls have returned
    lastCall,           \* per Topic: <<>> or <<[event, subscribers] of the
                        \* latest publish call>>
    delivered,          \* per Topic, history: the puts publish has made
    subscribedAfter,    \* per Topic and subscriber, history: the number of
                        \* publish calls returned when it was subscribed
    subscribeReturn,    \* per Topic: what the latest subscribe returned
    \* ---- opening the game link (simutronics/connector.py connect) ----
    cpc,                \* "idle" | "authenticating" | "returned" | "raised"
    connectErr,         \* "none" or the exception connect() raised
    gameWire,           \* history: what connect() wrote on the game link
    \* ---- a Response and the calls of its methods (eaccess.py Response) ----
    rfields,            \* the tab-separated fields the body was sent with
    rbody,              \* Response.body
    rcall,              \* <<>> or the latest call: <<"pairs", swap>>, <<"json">>
    rresult             \* what that call returned

engineVars == <<peer, transport, inbox, peerSent, outWire, conn_open,
                writerClosing, closeCalls, closeRaised, game_event_raw,
                fe_story_view, game_server_write, fe_user_input, subscribers,
                pc, event, runState, userSubmitted, forwarded,
                srcStopped>>

authVars == <<apc, link, cred, reqLog, outstanding, nextParams, resp,
              characters, authErr, session>>

hubVars == <<hubs, topics, channels, calls, lastCall, delivered,
             subscribedAfter, subscribeReturn>>

connVars == <<cpc, connectErr, gameWire>>

respVars == <<rfields, rbody, rcall, rresult>>

vars == <<engineVars, authVars, hubVars, connVars, respVars>>

---------------------------------------------------------------------------
(* Bounds of the model. *)
MaxMsgs == 3
MaxCmds == 2
MaxCloses == 2
MaxSubs == 4
MaxPubs == 2
MaxFields == 4

\* Framed messages the game server may send (bytes up to and including the
\* read separator).  "xFF</prompt>" stands for bytes that are not valid UTF-8.
RawMsgs == {"hi</prompt>", "xFF</prompt>"}
\* Texts the command source may submit; the Input widget submits "" as well.
Cmds == {"look", ""}

Loops == {"read", "write", "relay"}
NoEvent == "<unset>"

---------------------------------------------------------------------------
(* Connection *)

\* __init__ defaults: write_separator and quit_command.
write_separator == "\r\n"
quit_command == "exit"

\* read(): raw_msg.decode(encoding), and str(raw_msg) on UnicodeDecodeError.
Decode(raw) ==
    IF raw = "xFF</prompt>" THEN "b'" \o raw \o "'" ELSE raw

\* A read that is held back while a command waits to be written.
ReadOutcomeAfterWrites ==
    IF game_server_write # <<>> THEN "block"
    ELSE IF transport # "ok" THEN "raise"
    ELSE IF inbox # <<>> THEN "message"
    ELSE IF peer # "open" \/ writerClosing THEN "incomplete"
    ELSE "block"

\* What reader.readuntil does when it is resumed: it raises the transport's
\* exception first, returns a buffered message next, and raises
\* IncompleteReadError at end of file (the peer closed, or the writer was
\* closed locally).  "block" means it stays suspended.
ReadOutcome ==
    IF transport # "ok" THEN "raise"
    ELSE IF inbox # <<>> THEN "message"
    ELSE IF peer # "open" \/ writerClosing THEN "incomplete"
    ELSE "block"

\* read(): the text returned, for the outcomes that return.
ReadText == IF ReadOutcome = "message" THEN Decode(Head(inbox)) ELSE ""

\* is_open() as its docstring has it: the writer is not closing or closed.
is_open_writer_only == ~writerClosing

\* is_open() with the sense of the _open flag reversed.
is_open_flag_reversed == ~conn_open \/ ~writerClosing

\* is_open()
is_open == conn_open \/ ~writerClosing

\* write(): writer.write(msg) followed by drain().  drain raises the
\* reader's exception when the transport failed, and ConnectionResetError
\* when the connection is lost, which a locally closed writer is too.
WriteOutcome ==
    IF transport = "error" THEN "OtherError"
    ELSE IF transport = "reset" \/ writerClosing THEN "ConnectionResetError"
    ELSE "ok"

\* write() without the write separator.
EncodeBare(text) == text

\* write(): msg = text.encode(self.encoding) + self.write_separator
Encode(text) == text \o write_separator

WireAfterWrite(text) ==
    IF WriteOutcome = "ok" THEN Append(outWire, Encode(text)) ELSE outWire

---------------------------------------------------------------------------
(* Topic *)

QueueOf(name) ==
    CASE name = "game_event_raw" -> game_event_raw
      [] name = "fe_story_view" -> fe_story_view

\* publish(): for subscriber in subscribers: await subscriber.put(event).
\* The number of times `name` is a subscriber is the number of puts it gets.
RECURSIVE Deliveries(_, _, _)
Deliveries(subs, name, ev) ==
    IF subs = <<>> THEN <<>>
    ELSE (IF Head(subs) = name THEN <<ev>> ELSE <<>>)
         \o Deliveries(Tail(subs), name, ev)

\* publish() putting the event at the front of the channel.
PublishedAtFront(name, ev) ==
    Deliveries(subscribers, name, ev) \o QueueOf(name)

Published(name, ev) == QueueOf(name) \o Deliveries(subscribers, name, ev)

\* Server.__init__ subscribing the display channel, and doing it first.
InitialSubscribersDisplayFirst(headless) ==
    IF headless THEN <<"fe_story_view">>
    ELSE Append(<<"fe_story_view">>, "game_event_raw")

\* Server.__init__: Topic(subscribers=[hub.game_event_raw]) and, unless
\* headless, subscribe(hub.fe_story_view).
InitialSubscribers(headless) ==
    IF headless THEN <<"game_event_raw">>
    ELSE Append(<<"game_event_raw">>, "fe_story_view")

---------------------------------------------------------------------------
(* Server.run *)

EngineInit(modes) ==
    /\ peer = "open" /\ transport = "ok"
    /\ inbox = <<>> /\ peerSent = <<>> /\ outWire = <<>>
    /\ conn_open = TRUE /\ writerClosing = FALSE
    /\ closeCalls = 0 /\ closeRaised = FALSE
    /\ game_event_raw = <<>> /\ fe_story_view = <<>>
    /\ game_server_write = <<>> /\ fe_user_input = <<>>
    /\ \E headless \in modes : subscribers = InitialSubscribers(headless)
    /\ pc = [l \in Loops |-> "new"]
    /\ event = [l \in Loops |-> NoEvent]
    /\ runState = "idle"
    /\ userSubmitted = <<>> /\ forwarded = <<>> /\ srcStopped = FALSE

\* run(): asyncio.gather schedules the three coroutines as tasks.
RunStart ==
    /\ runState = "idle"
    /\ runState' = "running"
    /\ pc' = [l \in Loops |-> "start"]
    /\ UNCHANGED <<peer, transport, inbox, peerSent, outWire, conn_open,
                   writerClosing, closeCalls, closeRaised, game_event_raw,
                   fe_story_view, game_server_write, fe_user_input,
                   subscribers, event, userSubmitted, srcStopped>>
    /\ UNCHANGED <<forwarded, authVars, hubVars, connVars, respVars>>

\* read_game_server_events: one resumption of
\*   while event := await self.connection.read(): await topic.publish(event)
read_game_server_events ==
    /\ pc["read"] \in {"start", "read"}
    /\ ReadOutcome # "block"
    /\ CASE ReadOutcome = "raise" ->
              /\ pc' = [pc EXCEPT !["read"] = "raised"]
              /\ UNCHANGED <<inbox, conn_open, event, game_event_raw,
                             fe_story_view>>
         [] ReadOutcome = "incomplete" ->
              /\ conn_open' = FALSE
              /\ event' = [event EXCEPT !["read"] = ReadText]
              /\ pc' = [pc EXCEPT !["read"] = "done"]
              /\ UNCHANGED <<inbox, game_event_raw, fe_story_view>>
         [] ReadOutcome = "message" ->
              /\ inbox' = Tail(inbox)
              /\ event' = [event EXCEPT !["read"] = ReadText]
              /\ game_event_raw' = Published("game_event_raw", ReadText)
              /\ fe_story_view' = Published("fe_story_view", ReadText)
              /\ pc' = [pc EXCEPT !["read"] = "read"]
              /\ UNCHANGED conn_open
    /\ UNCHANGED <<peer, transport, peerSent, outWire, writerClosing,
                   closeCalls, closeRaised, game_server_write, fe_user_input,
                   subscribers, runState, userSubmitted, srcStopped>>
    /\ UNCHANGED <<forwarded, authVars, hubVars, connVars, respVars>>

\* The loop test of write_game_server_events: while self.connection.is_open()
WriteLoopTest == IF is_open THEN "get" ELSE "done"

\* write_game_server_events, from the start of the task to its first await.
write_loop_enter ==
    /\ pc["write"] = "start"
    /\ pc' = [pc EXCEPT !["write"] = WriteLoopTest]
    /\ UNCHANGED <<peer, transport, inbox, peerSent, outWire, conn_open,
                   writerClosing, closeCalls, closeRaised, game_event_raw,
                   fe_story_view, game_server_write, fe_user_input,
                   subscribers, event, runState, userSubmitted, srcStopped>>
    /\ UNCHANGED <<forwarded, authVars, hubVars, connVars, respVars>>

\* A write loop without the except clause's break: it goes on after a reset.
AfterWriteGoesOn(outcome) ==
    IF outcome = "OtherError" THEN "raised" ELSE WriteLoopTest

\* Where the write loop goes after connection.write(event) ended with
\* `outcome`: except ConnectionResetError: break; anything else propagates.
AfterWrite(outcome) ==
    CASE outcome = "ok" -> WriteLoopTest
      [] outcome = "ConnectionResetError" -> "done"
      [] OTHER -> "raised"

\* write_game_server_events: one resumption of
\*   event = await self.hub.game_server_write.get()
\*   try: await self.connection.write(event)
\*   except ConnectionResetError: break
write_game_server_events ==
    /\ pc["write"] = "get"
    /\ game_server_write # <<>>
    /\ event' = [event EXCEPT !["write"] = Head(game_server_write)]
    /\ game_server_write' = Tail(game_server_write)
    /\ outWire' = WireAfterWrite(Head(game_server_write))
    /\ pc' = [pc EXCEPT !["write"] = AfterWrite(WriteOutcome)]
    /\ UNCHANGED <<peer, transport, inbox, peerSent, conn_open,
                   writerClosing, closeCalls, closeRaised, game_event_raw,
                   fe_story_view, fe_user_input, subscribers, runState,
                   userSubmitted, srcStopped>>
    /\ UNCHANGED <<forwarded, authVars, hubVars, connVars, respVars>>

\* The loop test of process_user_input: while event := await ...get()
RelayLoopTest(ev) == IF ev # "" THEN "get" ELSE "done"

\* process_user_input: one resumption of
\*   while event := await self.hub.fe_user_input.get():
\*       await self.hub.game_server_write.put(event)
process_user_input ==
    /\ pc["relay"] \in {"start", "get"}
    /\ fe_user_input # <<>>
    /\ event' = [event EXCEPT !["relay"] = Head(fe_user_input)]
    /\ fe_user_input' = Tail(fe_user_input)
    /\ game_server_write' =
          IF RelayLoopTest(Head(fe_user_input)) = "get"
          THEN Append(game_server_write, Head(fe_user_input))
          ELSE game_server_write
    /\ forwarded' =
          IF RelayLoopTest(Head(fe_user_input)) = "get"
          THEN Append(forwarded, Head(fe_user_input))
          ELSE forwarded
    /\ pc' = [pc EXCEPT !["relay"] = RelayLoopTest(Head(fe_user_input))]
    /\ UNCHANGED <<peer, transport, inbox, peerSent, outWire, conn_open,
                   writerClosing, closeCalls, closeRaised, game_event_raw,
                   fe_story_view, subscribers, runState, userSubmitted,
                   srcStopped>>
    /\ UNCHANGED <<authVars, hubVars, connVars, respVars>>

\* await asyncio.gather(...) without return_exceptions: the awaiting run()
\* is resumed with the first exception a child raises, or with the results
\* once every child has returned.  The other children are not cancelled.
GatherOutcome ==
    IF \E l \in Loops : pc[l] = "raised" THEN "raised"
    ELSE IF \A l \in Loops : pc[l] = "done" THEN "returned"
    ELSE "running"

run_complete ==
    /\ runState = "running"
    /\ GatherOutcome # "running"
    /\ runState' = GatherOutcome
    /\ UNCHANGED <<peer, transport, inbox, peerSent, outWire, conn_open,
                   writerClosing, closeCalls, closeRaised, game_event_raw,
                   fe_story_view, game_server_write, fe_user_input,
                   subscribers, pc, event, userSubmitted, srcStopped>>
    /\ UNCHANGED <<forwarded, authVars, hubVars, connVars, respVars>>

---------------------------------------------------------------------------
(* The surroundings of the engine *)

\* The game server sends one framed message (devtools/server.py write_loop).
PeerSend ==
    /\ peer = "open" /\ transport = "ok" /\ ~writerClosing
    /\ Len(peerSent) < MaxMsgs
    /\ \E m \in RawMsgs :
          /\ inbox' = Append(inbox, m)
          /\ peerSent' = Append(peerSent, m)
    /\ UNCHANGED <<peer, transport, outWire, conn_open, writerClosing,
                   closeCalls, closeRaised, game_event_raw, fe_story_view,
                   game_server_write, fe_user_input, subscribers, pc, event,
                   runState, userSubmitted, srcStopped>>
    /\ UNCHANGED <<forwarded, authVars, hubVars, connVars, respVars>>

\* The game server closes the link, after a complete message or in the
\* middle of one.  The transport stays open for writing (eof_received).
PeerClose ==
    /\ peer = "open" /\ transport = "ok"
    /\ \E p \in {"eof", "eof_partial"} : peer' = p
    /\ UNCHANGED <<transport, inbox, peerSent, outWire, conn_open,
                   writerClosing, closeCalls, closeRaised, game_event_raw,
                   fe_story_view, game_server_write, fe_user_input,
                   subscribers, pc, event, runState, userSubmitted,
                   srcStopped>>
    /\ UNCHANGED <<forwarded, authVars, hubVars, connVars, respVars>>

\* The transport fails: connection_lost(exc) with a ConnectionResetError
\* ("reset") or with any other OSError such as BrokenPipeError ("error").
\* The transport is closing from then on.
TransportFail ==
    /\ transport = "ok" /\ ~writerClosing
    /\ \E k \in {"reset", "error"} : transport' = k
    /\ writerClosing' = TRUE
    /\ UNCHANGED <<peer, inbox, peerSent, outWire, conn_open, closeCalls,
                   closeRaised, game_event_raw, fe_story_view,
                   game_server_write, fe_user_input, subscribers, pc, event,
                   runState, userSubmitted, srcStopped>>
    /\ UNCHANGED <<forwarded, authVars, hubVars, connVars, respVars>>

\* UserInput.on_input_submitted: await self.hub.fe_user_input.put(value)
on_input_submitted ==
    /\ ~srcStopped
    /\ Len(userSubmitted) < MaxCmds
    /\ \E c \in Cmds :
          /\ fe_user_input' = Append(fe_user_input, c)
          /\ userSubmitted' = Append(userSubmitted, c)
    /\ UNCHANGED <<peer, transport, inbox, peerSent, outWire, conn_open,
                   writerClosing, closeCalls, closeRaised, game_event_raw,
                   fe_story_view, game_server_write, subscribers, pc, event,
                   runState, srcStopped>>
    /\ UNCHANGED <<forwarded, authVars, hubVars, connVars, respVars>>

\* The command source ends (the application exits): nothing more is put.
SourceStop ==
    /\ ~srcStopped
    /\ srcStopped' = TRUE
    /\ UNCHANGED <<peer, transport, inbox, peerSent, outWire, conn_open,
                   writerClosing, closeCalls, closeRaised, game_event_raw,
                   fe_story_view, game_server_write, fe_user_input,
                   subscribers, pc, event, runState, userSubmitted>>
    /\ UNCHANGED <<forwarded, authVars, hubVars, connVars, respVars>>

\* Connection.close(), called by the owner of the session:
\*   self._open = False; await self.write(self.quit_command)
\*   try: self.writer.close(); await self.writer.wait_closed()
\*   except Exception as exc: print(exc)
close ==
    /\ closeCalls < MaxCloses
    /\ closeCalls' = closeCalls + 1
    /\ conn_open' = FALSE
    /\ outWire' = WireAfterWrite(quit_command)
    /\ closeRaised' = (closeRaised \/ WriteOutcome # "ok")
    /\ writerClosing' = (writerClosing \/ WriteOutcome = "ok")
    /\ UNCHANGED <<peer, transport, inbox, peerSent, game_event_raw,
                   fe_story_view, game_server_write, fe_user_input,
                   subscribers, pc, event, runState, userSubmitted,
                   srcStopped>>
    /\ UNCHANGED <<forwarded, authVars, hubVars, connVars, respVars>>

---------------------------------------------------------------------------
(* EAccess protocol: texts *)

\* A text is a sequence of symbols.  "\t", "\n" and "=" are the characters
\* themselves, the action codes are one character each, and every other
\* symbol stands for the run of characters it spells.

Min(a, b) == IF a <= b THEN a ELSE b

\* The first index of symbol c in s, 0 if there is none (str.find).
Find(s, c) ==
    IF \E i \in 1..Len(s) : s[i] = c
    THEN CHOOSE i \in 1..Len(s) : s[i] = c /\ \A j \in 1..(i - 1) : s[j] # c
    ELSE 0

\* c in s, for a one-symbol c
Contains(s, c) == Find(s, c) # 0

\* s.strip(c): every leading and every trailing c removed.
RECURSIVE LStrip(_, _)
LStrip(s, c) ==
    IF s # <<>> /\ Head(s) = c THEN LStrip(Tail(s), c) ELSE s

RECURSIVE RStrip(_, _)
RStrip(s, c) ==
    IF s # <<>> /\ s[Len(s)] = c THEN RStrip(SubSeq(s, 1, Len(s) - 1), c)
    ELSE s

Strip(s, c) == RStrip(LStrip(s, c), c)

\* Response.split(): self.body.split("\t")
RECURSIVE SplitOn(_, _)
SplitOn(s, c) ==
    IF Find(s, c) = 0 THEN <<s>>
    ELSE <<SubSeq(s, 1, Find(s, c) - 1)>>
         \o SplitOn(SubSeq(s, Find(s, c) + 1, Len(s)), c)

split(body) == SplitOn(body, "\t")

\* islice(vals, start, None, 2): the fields at start, start+2, ... (0-based)
Slice2(vals, start) ==
    [i \in 1..((Len(vals) - start + 1) \div 2) |-> vals[start + 2 * i - 1]]

\* pairs() that takes no notice of its swap flag.
pairs_unswapped(body, swap) ==
    [i \in 1..(Len(SplitOn(body, "\t")) \div 2) |->
        <<SplitOn(body, "\t")[2 * i - 1], SplitOn(body, "\t")[2 * i]>>]

\* Response.pairs(swap): zip of the two slices, as long as the shorter one.
pairs(body, swap) ==
    LET key_start == IF ~swap THEN 0 ELSE 1
        val_start == 1 - key_start
        ks == Slice2(split(body), key_start)
        vs == Slice2(split(body), val_start)
    IN  [i \in 1..Min(Len(ks), Len(vs)) |-> <<ks[i], vs[i]>>]

\* A dict built from (key, value) items in order: a later item replaces an
\* earlier one with the same key.
DictOf(items) ==
    [k \in {items[i][1] : i \in 1..Len(items)} |->
        items[CHOOSE i \in 1..Len(items) :
                 /\ items[i][1] = k
                 /\ \A j \in (i + 1)..Len(items) : items[j][1] # k][2]]

\* The last index of symbol c in s, 0 if there is none (str.rfind).
RFind(s, c) ==
    IF \E i \in 1..Len(s) : s[i] = c
    THEN CHOOSE i \in 1..Len(s) : s[i] = c /\ \A j \in (i + 1)..Len(s) : s[j] # c
    ELSE 0

\* x.rpartition("="), with the order of partition for a field without "=".
partition_at_last(x) ==
    IF RFind(x, "=") = 0 THEN <<x, <<>>>>
    ELSE <<SubSeq(x, 1, RFind(x, "=") - 1),
           SubSeq(x, RFind(x, "=") + 1, Len(x))>>

\* x.partition("="): <<before, after>> of the first "=", <<x, "">> without.
partition(x) ==
    IF Find(x, "=") = 0 THEN <<x, <<>>>>
    ELSE <<SubSeq(x, 1, Find(x, "=") - 1),
           SubSeq(x, Find(x, "=") + 1, Len(x))>>

\* Response.json()
json(body) ==
    IF Contains(body, "=")
    THEN DictOf([i \in 1..Len(split(body)) |-> partition(split(body)[i])])
    ELSE DictOf(pairs(body, FALSE))

\* request(): what becomes Response.body of the line read from the link:
\*   if resp.startswith(action): resp = resp[1:]
\*   resp = resp.strip("\n").strip("\t")
ResponseBody(action, line) ==
    LET r == IF line # <<>> /\ Head(line) = action THEN Tail(line) ELSE line
    IN  Strip(Strip(r, "\n"), "\t")

---------------------------------------------------------------------------
(* EAccess protocol: password obfuscation *)

\* str.encode() of the symbols used in passwords and hash keys (UTF-8);
\* "eacute" is U+00E9, two bytes.
Utf8 == [c \in {"T", "E", "a", "b", "eacute"} |->
            CASE c = "T" -> <<84>>
              [] c = "E" -> <<69>>
              [] c = "a" -> <<97>>
              [] c = "b" -> <<98>>
              [] OTHER -> <<195, 169>>]

RECURSIVE EncodeText(_)
EncodeText(s) ==
    IF s = <<>> THEN <<>> ELSE Utf8[Head(s)] \o EncodeText(Tail(s))

\* a ^ b for naturals
RECURSIVE XorNat(_, _)
XorNat(a, b) ==
    IF a = 0 THEN b
    ELSE IF b = 0 THEN a
    ELSE ((a + b) % 2) + 2 * XorNat(a \div 2, b \div 2)

\* a ^ b of Python's unbounded two's-complement integers, for b >= 0
XorInt(a, b) == IF a < 0 THEN -(XorNat(-a - 1, b)) - 1 ELSE XorNat(a, b)

\* encrypt_password: bytes(((c - 32) ^ k) + 32 for c, k in zip(...)).
\* bytes() raises ValueError for a number outside 0..255.
encrypt_password(password, hashkey) ==
    LET cs == EncodeText(password)
        ks == EncodeText(hashkey)
        out == [i \in 1..Min(Len(cs), Len(ks)) |->
                   XorInt(cs[i] - 32, ks[i]) + 32]
    IN  IF \A i \in 1..Len(out) : out[i] \in 0..255
        THEN [err |-> "none", bytes |-> out]
        ELSE [err |-> "ValueError", bytes |-> <<>>]

---------------------------------------------------------------------------
(* EAccess protocol: the steps of EAccessClient *)

\* The symbols whose spelling has the characters KEY in it.
KeySymbols == {"KEY", "MONKEY"}

\* "KEY" in body: a test for a run of characters, not for a field.
ContainsKEY(body) == \E i \in 1..Len(body) : body[i] \in KeySymbols

\* authenticate_account, after the A response:
\*   if "KEY" not in resp.body: raise AuthenticationError(resp)
\*   try: key = resp.split()[-2]
\*   except IndexError: raise AuthenticationError(resp)
authenticate_account(body) ==
    IF ~ContainsKEY(body) \/ Len(split(body)) < 2
    THEN [err |-> "AuthenticationError", key |-> <<>>]
    ELSE [err |-> "none", key |-> split(body)[Len(split(body)) - 1]]

\* get_characters mapping the first field of a pair to the second.
get_characters_first_to_second(body) ==
    LET ps == pairs(body, FALSE)
    IN  DictOf([i \in 1..(IF Len(ps) > 2 THEN Len(ps) - 2 ELSE 0) |->
                   <<ps[i + 2][1], ps[i + 2][2]>>])

\* get_characters:
\*   {k: v for i, (v, k) in enumerate(resp.pairs()) if i > 1}
get_characters(body) ==
    LET ps == pairs(body, FALSE)
    IN  DictOf([i \in 1..(IF Len(ps) > 2 THEN Len(ps) - 2 ELSE 0) |->
                   <<ps[i + 2][2], ps[i + 2][1]>>])

\* str.title() over the letters used in character names: a letter that
\* follows a letter is lower-cased, any other letter is upper-cased.
Upper == [c \in {"b", "o", "B", "O"} |->
             CASE c \in {"b", "B"} -> "B" [] OTHER -> "O"]
Lower == [c \in {"b", "o", "B", "O"} |->
             CASE c \in {"b", "B"} -> "b" [] OTHER -> "o"]

Title(s) ==
    [i \in 1..Len(s) |->
        IF s[i] \notin DOMAIN Upper THEN s[i]
        ELSE IF i > 1 /\ s[i - 1] \in DOMAIN Upper THEN Lower[s[i]]
        ELSE Upper[s[i]]]

\* select_character: characters.get(character.title())
None == <<"<None>">>
character_code(chars, character) ==
    IF Title(character) \in DOMAIN chars THEN chars[Title(character)]
    ELSE None

\* UnknownCharacter without the test for None.
UnknownCharacterNever(code) == FALSE

\* select_character: if character_code is None: raise AuthenticationError
UnknownCharacter(code) == code = None

\* select_character without the rewriting of the body.
ReplaceNothing(s) == s

\* s.replace(old, new) for old = "OK\t", new = "OK=1\t", left to right.
RECURSIVE ReplaceOK(_)
ReplaceOK(s) ==
    IF Len(s) < 2 THEN s
    ELSE IF s[1] = "OK" /\ s[2] = "\t"
         THEN <<"OK", "=", "1", "\t">> \o ReplaceOK(SubSeq(s, 3, Len(s)))
         ELSE <<s[1]>> \o ReplaceOK(Tail(s))

\* int(text) of the numerals used in responses; anything else: ValueError.
IntOf == [t \in {"10024", "5535"} |->
             CASE t = "10024" -> 10024 [] OTHER -> 5535]
IsInt(v) == Len(v) = 1 /\ v[1] \in DOMAIN IntOf

\* The keyword arguments of SessionInfo(...) in evaluation order, and
\* whether int() is applied.
SessionFields ==
    << <<"GAMEHOST", FALSE>>, <<"GAMEPORT", TRUE>>, <<"KEY", FALSE>>,
       <<"GAMECODE", FALSE>>, <<"UPPORT", TRUE>>, <<"GAME", FALSE>>,
       <<"FULLGAMENAME", FALSE>>, <<"GAMEFILE", FALSE>> >>

\* The exception the i-th argument raises for the dict j: jresp[key] raises
\* KeyError, int(...) raises ValueError.
FieldError(j, i) ==
    IF <<SessionFields[i][1]>> \notin DOMAIN j THEN "KeyError"
    ELSE IF SessionFields[i][2] /\ ~IsInt(j[<<SessionFields[i][1]>>])
         THEN "ValueError"
         ELSE "none"

\* select_character, after the L response:
\*   resp = replace(resp, body=resp.body.replace("OK\t", "OK=1\t"))
\*   jresp = resp.json();  return SessionInfo(host=jresp["GAMEHOST"], ...)
SessionInfo(body) ==
    LET j == json(ReplaceOK(body))
        bad == {i \in 1..Len(SessionFields) : FieldError(j, i) # "none"}
        first == CHOOSE i \in bad : \A k \in bad : i <= k
    IN  IF bad # {} THEN [err |-> FieldError(j, first), info |-> <<>>]
        ELSE [err |-> "none",
              info |-> <<[host |-> j[<<"GAMEHOST">>],
                          port |-> IntOf[j[<<"GAMEPORT">>][1]],
                          key |-> j[<<"KEY">>],
                          game_code |-> j[<<"GAMECODE">>],
                          upport |-> IntOf[j[<<"UPPORT">>][1]],
                          frontend |-> j[<<"GAME">>],
                          frontend_name |-> j[<<"FULLGAMENAME">>],
                          frontend_exe |-> j[<<"GAMEFILE">>],
                          ok |-> (<<"OK">> \in DOMAIN j
                                  /\ j[<<"OK">>] = <<"1">>)]>>]

---------------------------------------------------------------------------
(* EAccess protocol: authenticate() as a state machine *)

account == <<"ACCT">>
game_code == <<"GS3">>
frontend == <<"STORM">>

\* The credentials tried: passwords and character names.
Passwords == {<<"T", "E">>, <<"eacute">>}
CharacterNames == {<<"b", "o", "b">>, <<"B", "O", "B">>, <<"o", "b">>}

\* A successful L response, with the value of GAMEPORT and the fields
\* after GAMEPORT left open.
LLine(port, rest) ==
    <<"L", "\t", "OK", "\t", "UPPORT", "=", "5535", "\t",
      "GAME", "=", "STORM", "\t", "GAMECODE", "=", "GS", "\t",
      "FULLGAMENAME", "=", "Wrayth", "\t", "GAMEFILE", "=", "WRAYTH.EXE",
      "\t", "GAMEHOST", "=", "storm.gs4.game.play.net", "\t",
      "GAMEPORT", "=", port>> \o rest \o <<"\n">>

\* An L response line without its OK marker.
WithoutMarker(line) == SubSeq(line, 1, 2) \o SubSeq(line, 5, Len(line))

\* The lines the EAccess server may answer a request with.
Lines(action) ==
    CASE action = "K" -> {<<"a", "b", "\n">>, <<"a", "\n">>}
      [] action = "A" ->
            {<<"A", "\t", "ACCT", "\t", "KEY", "\t", "k1", "\t", "NAME", "\n">>,
             <<"A", "\t", "ACCT", "\t", "PASSWORD", "\n">>,
             <<"A", "\t", "MONKEY", "\t", "PASSWORD", "\n">>,
             <<"A", "\t", "ACCT", "\t", "KEY", "\t", "k1", "\t", "\n">>,
             <<"A", "\t", "KEY", "\n">>}
      [] action = "G" ->
            {<<"G", "\t", "UNKNOWN", "\n">>,
             <<"G", "\t", "PROD", "=", "x", "\t", "ROOT", "=", "y", "\n">>}
      [] action = "C" ->
            {<<"C", "\t", "1", "\t", "1", "\t", "0", "\t", "0", "\t",
               "W1", "\t", "B", "o", "b", "\n">>,
             <<"C", "\t", "2", "\t", "2", "\t", "0", "\t", "0", "\t",
               "W1", "\t", "B", "o", "b", "\t", "W2", "\t", "A", "l", "\n">>,
             <<"C", "\t", "1", "\t", "0", "\t", "0", "\t", "0", "\n">>}
      [] action = "L" ->
            {LLine("10024", <<"\t", "KEY", "=", "k2">>),
             LLine("10024", <<>>),
             LLine("soon", <<"\t", "KEY", "=", "k2">>),
             LLine("10024", <<"\t", "KEY", "=">>),
             WithoutMarker(LLine("10024", <<"\t", "KEY", "=", "k2">>)),
             <<"L", "\t", "OK", "\t", "KEY", "=", "k2", "OK", "\t">>
                \o SubSeq(LLine("10024", <<>>), 5, Len(LLine("10024", <<>>))),
             <<"L", "\t", "PROBLEM", "\n">>}

\* What readuntil raises when the server closes the link instead.
EndOfFile == <<>>

AuthStart(creds) ==
    /\ apc = <<"connect", "">> /\ link = "none"
    /\ cred \in creds
    /\ reqLog = <<>> /\ outstanding = 0 /\ nextParams = <<>>
    /\ resp = <<>> /\ characters = <<>>
    /\ authErr = "none" /\ session = <<>>

\* NextPc with a retry: a failed step starts the login again at K.
NextPcRetry(action, err) ==
    IF err # "none" THEN <<"send", "K">>
    ELSE CASE action = "K" -> <<"send", "A">>
           [] action = "A" -> <<"send", "G">>
           [] action = "G" -> <<"send", "C">>
           [] action = "C" -> <<"send", "L">>
           [] action = "L" -> <<"close", "">>

\* NextPc without select_game: G is never sent.
NextPcSkipsGame(action, err) ==
    IF err # "none" THEN <<"raised", "">>
    ELSE CASE action = "K" -> <<"send", "A">>
           [] action = "A" -> <<"send", "C">>
           [] action = "G" -> <<"send", "C">>
           [] action = "C" -> <<"send", "L">>
           [] action = "L" -> <<"close", "">>

\* The order of the awaits in authenticate_account, authenticate and
\* select_character; an exception leaves all of them.
NextPc(action, err) ==
    IF err # "none" THEN <<"raised", "">>
    ELSE CASE action = "K" -> <<"send", "A">>
           [] action = "A" -> <<"send", "G">>
           [] action = "G" -> <<"send", "C">>
           [] action = "C" -> <<"send", "L">>
           [] action = "L" -> <<"close", "">>

\* authenticate(): client = EAccessClient(...); await client.connect()
auth_connect ==
    /\ apc = <<"connect", "">>
    /\ \E connected \in BOOLEAN :
          IF connected
          THEN link' = "open" /\ apc' = <<"send", "K">> /\ UNCHANGED authErr
          ELSE authErr' = "OSError" /\ apc' = <<"raised", "">>
               /\ UNCHANGED link
    /\ UNCHANGED <<cred, reqLog, outstanding, nextParams, resp, characters,
                   session>>
    /\ UNCHANGED <<engineVars, hubVars, connVars, respVars>>

\* request(): params.insert(0, action); self.writer.write(msg); drain()
request_send ==
    /\ apc[1] = "send"
    /\ reqLog' = Append(reqLog, [action |-> apc[2], params |-> nextParams])
    /\ outstanding' = outstanding + 1
    /\ apc' = <<"recv", apc[2]>>
    /\ UNCHANGED <<link, cred, nextParams, resp, characters, authErr,
                   session>>
    /\ UNCHANGED <<engineVars, hubVars, connVars, respVars>>

\* request(): raw = await self.reader.readuntil(b"\n") raises.
request_eof ==
    /\ apc[1] = "recv"
    /\ outstanding' = outstanding - 1
    /\ authErr' = "IncompleteReadError"
    /\ apc' = <<"raised", "">>
    /\ UNCHANGED <<link, cred, reqLog, nextParams, resp, characters,
                   session>>
    /\ UNCHANGED <<engineVars, hubVars, connVars, respVars>>

\* The rest of request() for `line`, and the caller's code up to its next
\* await, which ends with `err` and leaves `params` for the next request.
Receive(action, line, err, params) ==
    /\ apc = <<"recv", action>>
    /\ outstanding' = outstanding - 1
    /\ resp' = <<[action |-> action, body |-> ResponseBody(action, line),
                  line |-> line]>>
    /\ authErr' = err
    /\ apc' = NextPc(action, err)
    /\ nextParams' = params
    /\ UNCHANGED <<link, cred, reqLog>>
    /\ UNCHANGED <<engineVars, hubVars, connVars, respVars>>

\* get_password_ecryption_key, then encrypt_password in authenticate_account
recv_key ==
    \E line \in Lines("K") :
       LET enc == encrypt_password(cred.password, ResponseBody("K", line))
       IN  /\ Receive("K", line, enc.err, <<account, enc.bytes>>)
           /\ UNCHANGED <<characters, session>>

recv_account ==
    \E line \in Lines("A") :
       /\ Receive("A", line,
                  authenticate_account(ResponseBody("A", line)).err,
                  <<game_code>>)
       /\ UNCHANGED <<characters, session>>

\* select_game: return resp.json(), which authenticate() drops
recv_game ==
    \E line \in Lines("G") :
       /\ Receive("G", line, "none", <<>>)
       /\ UNCHANGED <<characters, session>>

\* get_characters, then the lookup of select_character
recv_characters ==
    \E line \in Lines("C") :
       LET chars == get_characters(ResponseBody("C", line))
           code == character_code(chars, cred.character)
       IN  /\ Receive("C", line,
                      IF UnknownCharacter(code) THEN "AuthenticationError"
                      ELSE "none",
                      <<code, frontend>>)
           /\ characters' = <<chars>>
           /\ UNCHANGED session

\* select_character, after its request
recv_session ==
    \E line \in Lines("L") :
       LET s == SessionInfo(ResponseBody("L", line))
       IN  /\ Receive("L", line, s.err, <<>>)
           /\ session' = s.info
           /\ UNCHANGED characters

\* authenticate(): await client.close(); return session_info
auth_close ==
    /\ apc = <<"close", "">>
    /\ link' = "closed"
    /\ apc' = <<"returned", "">>
    /\ UNCHANGED <<cred, reqLog, outstanding, nextParams, resp, characters,
                   authErr, session>>
    /\ UNCHANGED <<engineVars, hubVars, connVars, respVars>>

---------------------------------------------------------------------------
(* Several Servers and Topics in one process *)

Servers == {"s1", "s2"}
\* The Topic of each Server, and one created directly: Topic(subscribers=[]).
Topics == Servers \cup {"bare"}
Events == {"e1", "e2"}

HubFields == {"game_server_write", "game_event_raw", "cmd_raw", "cmd_parsed",
              "cmd_processed", "fe_story_view", "fe_user_input"}

\* class EventHub: each `name: Queue = Queue()` in the class body is
\* evaluated once, when the class is defined, and makes one Queue object.
ClassDefault == [f \in HubFields |-> <<"EventHub", f>>]

QueueIds == {ClassDefault[f] : f \in HubFields}

\* EventHub(): the generated __init__ takes no argument here and binds
\* every field to its default, which is the object of the class body.
EventHub == ClassDefault

\* Server.__init__: the subscribers of game_event_topic, taken from the hub.
TopicOf(hub, headless) ==
    [i \in 1..Len(InitialSubscribers(headless)) |->
        hub[InitialSubscribers(headless)[i]]]

HubStart ==
    /\ hubs = [s \in Servers |-> <<>>]
    /\ topics = [t \in Topics |-> <<>>]
    /\ channels = [q \in QueueIds |-> <<>>]
    /\ calls = [t \in Topics |-> 0]
    /\ lastCall = [t \in Topics |-> <<>>]
    /\ delivered = [t \in Topics |-> <<>>]
    /\ subscribedAfter = [t \in Topics |-> <<>>]
    /\ subscribeReturn = [t \in Topics |-> 0]

\* The Topic object exists: a Server's is made by Server.__init__.
TopicExists(t) == t \in Servers => hubs[t] # <<>>

\* Server(connection, headless)
server_init(s, headless) ==
    /\ hubs[s] = <<>>
    /\ hubs' = [hubs EXCEPT ![s] = <<EventHub>>]
    /\ topics' = [topics EXCEPT ![s] = TopicOf(EventHub, headless)]
    /\ subscribedAfter' =
          [subscribedAfter EXCEPT
              ![s] = [i \in 1..Len(TopicOf(EventHub, headless)) |-> 0]]
    /\ subscribeReturn' =
          [subscribeReturn EXCEPT ![s] = IF headless THEN @ ELSE 2]
    /\ UNCHANGED <<channels, calls, lastCall, delivered>>
    /\ UNCHANGED <<engineVars, authVars, connVars, respVars>>

\* subscribe() putting the queue at the front of the list.
SubscribedFirst(subs, queue) == <<queue>> \o subs

\* subscribe(): self.subscribers.append(queue)
Subscribed(subs, queue) == Append(subs, queue)

\* The queues a caller can get hold of: the fields of an existing hub.
KnownQueues ==
    {hubs[s][1][f] : s \in {x \in Servers : hubs[x] # <<>>},
                     f \in {"game_event_raw", "fe_story_view"}}

\* Topic.subscribe(queue)
topic_subscribe(t, queue) ==
    /\ TopicExists(t)
    /\ Len(topics["s1"]) + Len(topics["s2"]) + Len(topics["bare"]) < MaxSubs
    /\ topics' = [topics EXCEPT ![t] = Subscribed(@, queue)]
    /\ subscribeReturn' =
          [subscribeReturn EXCEPT ![t] = Len(Subscribed(topics[t], queue))]
    /\ subscribedAfter' = [subscribedAfter EXCEPT ![t] = Append(@, calls[t])]
    /\ UNCHANGED <<hubs, channels, calls, lastCall, delivered>>
    /\ UNCHANGED <<engineVars, authVars, connVars, respVars>>

\* Queues made with room for one item: Queue(maxsize=1)
maxsize_one(queue) == 1

\* Queue(): maxsize defaults to 0, and every field of EventHub is made so.
maxsize(queue) == 0

\* Queue.full(): never for maxsize <= 0.  put() suspends while it is full.
Full(queue, chans) ==
    maxsize(queue) > 0 /\ Len(chans[queue]) >= maxsize(queue)

\* publish() that stops after its first put.
TopicPublishFirstOnly(subs, i, ev, call, chans, log) ==
    IF subs = <<>> THEN [chans |-> chans, log |-> log]
    ELSE [chans |-> [chans EXCEPT ![subs[1]] = Append(@, ev)],
          log |-> Append(log, [sub |-> 1, queue |-> subs[1], event |-> ev,
                               call |-> call])]

\* publish(), from the i-th subscriber on, as far as it runs in one step:
\*   for subscriber in self.subscribers: await subscriber.put(event)
\* A put on a queue that is full suspends the publisher; any other put
\* does not.
RECURSIVE TopicPublish(_, _, _, _, _, _)
TopicPublish(subs, i, ev, call, chans, log) ==
    IF i > Len(subs) \/ Full(subs[i], chans)
    THEN [chans |-> chans, log |-> log]
    ELSE TopicPublish(subs, i + 1, ev, call,
                      [chans EXCEPT ![subs[i]] = Append(@, ev)],
                      Append(log, [sub |-> i, queue |-> subs[i],
                                   event |-> ev, call |-> call]))

\* await topic.publish(event): the call returns once every put is made.
topic_publish(t, ev) ==
    /\ TopicExists(t)
    /\ calls["s1"] + calls["s2"] + calls["bare"] < MaxPubs
    /\ LET r == TopicPublish(topics[t], 1, ev, calls[t] + 1, channels,
                             delivered[t])
       IN  /\ channels' = r.chans
           /\ delivered' = [delivered EXCEPT ![t] = r.log]
           /\ calls' = [calls EXCEPT
                          ![t] = IF Len(r.log) = Len(delivered[t])
                                                    + Len(topics[t])
                                 THEN @ + 1 ELSE @]
    /\ lastCall' = [lastCall EXCEPT
                       ![t] = <<[event |-> ev, subscribers |-> topics[t]]>>]
    /\ UNCHANGED <<hubs, topics, subscribedAfter, subscribeReturn>>
    /\ UNCHANGED <<engineVars, authVars, connVars, respVars>>

---------------------------------------------------------------------------
(* Opening the game link: simutronics/connector.py *)

\* async def authenticate(credentials, host=..., port=...): the parameters
\* of the function connector.py imports from simutronics/eaccess.py.
authenticate_parameters == <<"credentials", "host", "port">>

\* Python's binding of a call's arguments: every positional argument needs
\* a parameter, and every keyword names a parameter not yet bound.  A call
\* that does not bind raises TypeError before the function is entered.
CallBinds(parameters, positional, keywords) ==
    /\ positional <= Len(parameters)
    /\ \A k \in keywords :
          \E i \in (positional + 1)..Len(parameters) : parameters[i] = k

\* PROTOCOL, the front-end identification line
PROTOCOL == <<"/FE:WRAYTH /VERSION:1.0.1.26 /P:", "platform.system()",
              " /XML", "\n">>

\* What connect() writes on the new game link before it returns:
\*   writer.write(f"{sess.key}\n".encode()); writer.write(PROTOCOL.encode())
\*   for _ in range(2): await asyncio.sleep(0.3); writer.write(b"<c>\n")
BootstrapWrites(key) ==
    <<key \o <<"\n">>, PROTOCOL, <<"<c>", "\n">>, <<"<c>", "\n">> >>

ConnectStart ==
    cpc = "idle" /\ connectErr = "none" /\ gameWire = <<>>

\* connect(account, password, game, character), to its first await:
\*   sess = await authenticate(account, password, game, character,
\*                             client=eaclient)
connect ==
    /\ cpc = "idle"
    /\ IF CallBinds(authenticate_parameters, 4, {"client"})
       THEN cpc' = "authenticating" /\ UNCHANGED connectErr
       ELSE cpc' = "raised" /\ connectErr' = "TypeError"
    /\ UNCHANGED gameWire
    /\ UNCHANGED <<engineVars, authVars, hubVars, respVars>>

---------------------------------------------------------------------------
(* Response: the methods of a response of any body *)

\* The texts a field of a response body may be: empty, plain, key=value,
\* and with a second "=" in the value or an empty key.
FieldTexts == {<<>>, <<"a">>, <<"b">>, <<"a", "=", "b">>,
               <<"a", "=", "b", "=", "b">>, <<"=", "a">>}

\* The body the server sends for a list of fields: "\t".join(fields)
RECURSIVE JoinTabs(_)
JoinTabs(fields) ==
    IF Len(fields) = 0 THEN <<>>
    ELSE IF Len(fields) = 1 THEN fields[1]
    ELSE fields[1] \o <<"\t">> \o JoinTabs(Tail(fields))

\* Response(body=..., request=...) for every body of 1..MaxFields fields
ResponseStart ==
    /\ \E n \in 1..MaxFields : rfields \in [1..n -> FieldTexts]
    /\ rbody = JoinTabs(rfields)
    /\ rcall = <<>> /\ rresult = <<>>

\* A login or a session: the one Response is not called.
ResponseIdle ==
    /\ rfields = <<<<>>>> /\ rbody = <<>>
    /\ rcall = <<>> /\ rresult = <<>>

\* resp.pairs(swap)
response_pairs(swap) ==
    /\ rcall' = <<"pairs", swap>>
    /\ rresult' = pairs(rbody, swap)
    /\ UNCHANGED <<rfields, rbody>>
    /\ UNCHANGED <<engineVars, authVars, hubVars, connVars>>

\* resp.json()
response_json ==
    /\ rcall' = <<"json">>
    /\ rresult' = json(rbody)
    /\ UNCHANGED <<rfields, rbody>>
    /\ UNCHANGED <<engineVars, authVars, hubVars, connVars>>

---------------------------------------------------------------------------
(* Specifications *)

EngineStep ==
    \/ RunStart
    \/ read_game_server_events
    \/ write_loop_enter
    \/ write_game_server_events
    \/ process_user_input
    \/ run_complete

Next ==
    \/ EngineStep
    \/ PeerSend
    \/ PeerClose
    \/ TransportFail
    \/ on_input_submitted
    \/ SourceStop
    \/ close

HubNext ==
    \/ \E s \in Servers, headless \in BOOLEAN : server_init(s, headless)
    \/ \E t \in Topics, q \in KnownQueues : topic_subscribe(t, q)
    \/ \E t \in Topics, ev \in Events : topic_publish(t, ev)

AuthNext ==
    \/ auth_connect
    \/ request_send
    \/ request_eof
    \/ recv_key
    \/ recv_account
    \/ recv_game
    \/ recv_characters
    \/ recv_session
    \/ auth_close
    \/ connect

\* A game session: the login sequence is not running.
Init ==
    /\ HubStart
    /\ ConnectStart
    /\ ResponseIdle
    /\ EngineInit(BOOLEAN)
    /\ AuthStart({[password |-> <<"T", "E">>, character |-> <<"b", "o", "b">>]})

Spec == Init /\ [][Next]_vars

\* The event loop runs every task that is ready; the surroundings of the
\* engine are under no obligation to act.
Fairness ==
    /\ WF_vars(RunStart)
    /\ WF_vars(read_game_server_events)
    /\ WF_vars(write_loop_enter)
    /\ WF_vars(write_game_server_events)
    /\ WF_vars(process_user_input)
    /\ WF_vars(run_complete)

FairSpec == Init /\ [][Next]_vars /\ Fairness

\* A login: the engine is not running.
AuthInit ==
    /\ HubStart
    /\ ConnectStart
    /\ ResponseIdle
    /\ EngineInit({FALSE})
    /\ AuthStart([password : Passwords, character : CharacterNames])

AuthSpec == AuthInit /\ [][AuthNext]_vars

\* Servers and Topics being set up and published to: no session is running.
HubInit ==
    /\ HubStart
    /\ ConnectStart
    /\ ResponseIdle
    /\ EngineInit({FALSE})
    /\ AuthStart({[password |-> <<"T", "E">>, character |-> <<"b", "o", "b">>]})

HubSpec == HubInit /\ [][HubNext]_vars

ResponseNext ==
    \/ \E swap \in BOOLEAN : response_pairs(swap)
    \/ response_json

\* The methods of one Response: no login and no session is running.
ResponseInit ==
    /\ HubStart
    /\ ConnectStart
    /\ ResponseStart
    /\ EngineInit({FALSE})
    /\ AuthStart({[password |-> <<"T", "E">>, character |-> <<"b", "o", "b">>]})

ResponseSpec == ResponseInit /\ [][ResponseNext]_vars

---------------------------------------------------------------------------
(* Properties *)

IsPrefix(s, t) == Len(s) <= Len(t) /\ \A i \in 1..Len(s) : s[i] = t[i]

ActionsSent == [i \in 1..Len(reqLog) |-> reqLog[i].action]

DecodedSent == [i \in 1..Len(peerSent) |-> Decode(peerSent[i])]

LoopExited(l) == pc[l] \in {"done", "raised"}

\* The scripted session of C1: the game server sent three framed messages
\* and closed, the command source submitted two commands and stopped.
ScenarioC1 ==
    /\ peer # "open" /\ Len(peerSent) = 3
    /\ srcStopped /\ Len(userSubmitted) = 2
    /\ \A i \in 1..Len(userSubmitted) : userSubmitted[i] # ""

\* What the scripted session leaves out: the transport fails, or the
\* owner of the session closes the Connection.
Disturbed == transport # "ok" \/ closeCalls > 0

\* C1: in the scripted session (three messages then close, two commands
\* then nothing), run() eventually returns, having published exactly the
\* three messages in order and forwarded exactly the two commands in order.
C1_ScriptedSessionCompletes ==
    (ScenarioC1 /\ ~Disturbed)
       ~> (\/ /\ runState = "returned"
              /\ game_event_raw = DecodedSent
              /\ forwarded = userSubmitted
           \/ Disturbed)

\* C2: once the read loop has seen the empty read and is_open() is False,
\* the game-write loop eventually exits, whatever is put on the outbound
\* channel afterwards, nothing included.
C2_ClosedStreamEndsWriteLoop ==
    (event["read"] = "" /\ ~is_open) ~> LoopExited("write")

\* C3: once connect has succeeded, authenticate() ends, by return or by
\* exception, only with the authentication link closed.
C3_LinkClosedOnEveryPath ==
    (apc[1] \in {"returned", "raised"} /\ link # "none") => link = "closed"

\* C4: a read at end of file returns "" and is_open() is False afterwards.
\* The read loop ends only through such a read.
C4_EofReadClosesStream ==
    pc["read"] = "done" => (event["read"] = "" /\ ~is_open)

\* C5: the requests sent are a prefix of K, A, G, C, L, and at most one
\* request is outstanding at any time.
C5_RequestsFollowProtocolOrder ==
    /\ IsPrefix(ActionsSent, <<"K", "A", "G", "C", "L">>)
    /\ outstanding \in {0, 1}

C5_Witness ==
    apc = <<"returned", "">> /\ Len(reqLog) = 5 /\ outstanding = 0

\* The dict select_character looks the SessionInfo fields up in.
LacksRequiredField(body) ==
    \E i \in 1..Len(SessionFields) :
       <<SessionFields[i][1]>> \notin DOMAIN json(ReplaceOK(body))

\* C6: an L response lacking a required field makes select_character raise
\* AuthenticationError, and no SessionInfo is returned.
C6_MissingFieldIsAuthenticationError ==
    (resp # <<>> /\ resp[1].action = "L" /\ LacksRequiredField(resp[1].body))
       => (authErr = "AuthenticationError" /\ session = <<>>)

CharacterUnknown ==
    characters # <<>> /\ Title(cred.character) \notin DOMAIN characters[1]

\* C7: when the title-cased character name is not in the map built from
\* the C response, an authentication error is raised and no L request is
\* ever on the link.
C7_UnknownCharacterSendsNoL ==
    CharacterUnknown =>
       /\ authErr = "AuthenticationError"
       /\ \A i \in 1..Len(reqLog) : reqLog[i].action # "L"

C7_Witness ==
    CharacterUnknown /\ apc = <<"raised", "">> /\ Len(reqLog) = 4

\* C8: once a step of authenticate() has raised, no request is sent any
\* more and no later step is entered.
C8_FailureIsFinal ==
    [][authErr # "none" => (reqLog' = reqLog /\ apc' = apc)]_vars

C8_Witness ==
    authErr = "AuthenticationError" /\ ActionsSent = <<"K", "A">>

\* C9: run() has completed, by return or by exception, only when all
\* three loops have exited.
C9_RunCompletesAfterAllLoops ==
    runState \in {"returned", "raised"} => \A l \in Loops : LoopExited(l)

\* C10: no failure of the stream ends a loop with an exception, and none
\* is raised out of run().
C10_NoStreamFailureReachesCaller ==
    runState # "raised" /\ \A l \in Loops : pc[l] # "raised"

\* C12: no call of Connection.close raises: a failure of the quit message,
\* of closing the transport or of waiting for the close is swallowed.
C12_CloseNeverRaises == ~closeRaised

\* Connection._open was cleared: by a read at end of file ...
TerminatingReadSeen == event["read"] = ""

\* ... or by close().
OpenFlagCleared == TerminatingReadSeen \/ closeCalls > 0

ReadSoFar == SubSeq(DecodedSent, 1, Len(peerSent) - Len(inbox))

\* C14: the inbound topic's channels hold exactly the messages read, once
\* each and in arrival order, the display channel the same ones when it is
\* subscribed; the read loop ends through the empty read only, and after
\* it has ended nothing is read or published.
C14_ReadLoopPublishesInOrder ==
    /\ [](/\ game_event_raw = ReadSoFar
          /\ fe_story_view =
                IF Len(subscribers) = 2 THEN ReadSoFar ELSE <<>>
          /\ \A i \in 1..Len(game_event_raw) : game_event_raw[i] # ""
          /\ pc["read"] = "done" => TerminatingReadSeen)
    /\ [][LoopExited("read") =>
            UNCHANGED <<game_event_raw, fe_story_view, inbox>>]_vars

C14_Witness ==
    /\ pc["read"] = "done" /\ Len(subscribers) = 2
    /\ Len(fe_story_view) = 3
    /\ fe_story_view[1] # fe_story_view[2]

\* C15: everything taken off the command-source channel, the empty string
\* included, has been put on the outbound channel, once and in order, and
\* the relay has not stopped while the source can still submit.
C15_RelayForwardsEveryItem ==
    /\ forwarded =
          SubSeq(userSubmitted, 1, Len(userSubmitted) - Len(fe_user_input))
    /\ ~srcStopped => pc["relay"] # "done"

\* C16: once the command source has stopped, the relay loop eventually
\* terminates.
C16_RelayEndsWhenSourceExhausted == srcStopped ~> pc["relay"] = "done"

\* A step of the write loop whose write fails with ConnectionResetError.
WriteFailsByReset ==
    write_game_server_events /\ WriteOutcome = "ConnectionResetError"

InvalidSessionResponse ==
    /\ resp # <<>> /\ resp[1].action = "L"
    /\ LET j == json(ReplaceOK(resp[1].body))
       IN  \/ (<<"KEY">> \in DOMAIN j /\ j[<<"KEY">>] = <<>>)
           \/ <<"OK">> \notin DOMAIN j

\* C20: a SessionInfo that was returned has a non-empty key and ok = True;
\* an L response with an empty key or without the success marker ends in
\* an error and no SessionInfo.
C20_ReturnedSessionIsValid ==
    /\ session # <<>> => (session[1].key # <<>> /\ session[1].ok)
    /\ InvalidSessionResponse => (authErr # "none" /\ session = <<>>)

Created(s) == hubs[s] # <<>>

\* C11: two Servers of one process have no channel in common: no field of
\* one's EventHub is the same Queue as a field of the other's.
C11_ChannelsArePerInstance ==
    \A s, t \in Servers :
       (s # t /\ Created(s) /\ Created(t)) =>
          \A f, g \in HubFields : hubs[s][1][f] # hubs[t][1][g]

\* The puts the latest publish call on topic t has made.
CallDeliveries(t) == SelectSeq(delivered[t], LAMBDA d : d.call = calls[t])

\* How many times queue q is in the subscriber list subs.
Subscriptions(q, subs) == Cardinality({i \in 1..Len(subs) : subs[i] = q})

\* C18: when publish has returned it has made one put of the event per
\* subscriber, the i-th put on the i-th subscriber's channel; the step
\* appends the event to every channel once per subscription of it and
\* changes nothing else of any channel, so none with zero subscribers.
C18_PublishDeliversOncePerSubscriber ==
    /\ [](\A t \in Topics :
            lastCall[t] # <<>> =>
               LET d == CallDeliveries(t)
                   subs == lastCall[t][1].subscribers
               IN  /\ Len(d) = Len(subs)
                   /\ \A i \in 1..Len(d) :
                         /\ d[i].sub = i
                         /\ d[i].queue = subs[i]
                         /\ d[i].event = lastCall[t][1].event)
    /\ [][\A t \in Topics :
            calls'[t] # calls[t] =>
               \A q \in QueueIds :
                  channels'[q] =
                     channels[q] \o [i \in 1..Subscriptions(q, topics[t]) |->
                                        lastCall'[t][1].event]]_vars

C18_Witness ==
    /\ calls["bare"] = 1 /\ lastCall["bare"][1].subscribers = <<>>
    /\ calls["s1"] = 1 /\ Len(lastCall["s1"][1].subscribers) = 3
    /\ lastCall["s1"][1].subscribers[1] # lastCall["s1"][1].subscribers[2]

\* C19: a subscribe call leaves the list as it was with one channel more at
\* its end, returns the new length and puts nothing on any channel; and
\* every put publish has made on a subscriber's channel belongs to a call
\* that had not returned when the subscriber was subscribed.
C19_SubscribeAppendsAndCounts ==
    /\ [][\A t \in Topics :
            (TopicExists(t) /\ topics'[t] # topics[t]) =>
               /\ Len(topics'[t]) = Len(topics[t]) + 1
               /\ SubSeq(topics'[t], 1, Len(topics[t])) = topics[t]
               /\ subscribeReturn'[t] = Len(topics'[t])
               /\ channels' = channels]_vars
    /\ [](\A t \in Topics :
            \A k \in 1..Len(delivered[t]) :
               delivered[t][k].call > subscribedAfter[t][delivered[t][k].sub])

\* A channel was subscribed between two publish calls, as third subscriber.
C19_Witness ==
    /\ subscribeReturn["s1"] = 3 /\ subscribedAfter["s1"][3] = 1
    /\ calls["s1"] = 2
    /\ topics["s1"][3] = topics["s1"][1]

\* The latest response is the one to `action`.
Answered(action) == resp # <<>> /\ resp[1].action = action

\* The bare token OK followed by a tab is a field of the body.
HasBareOK(body) ==
    \E i \in 1..(Len(body) - 1) :
       /\ body[i] = "OK" /\ body[i + 1] = "\t"
       /\ (i = 1 \/ body[i - 1] = "\t")

\* C21: the SessionInfo returned has ok = True exactly when the L response
\* carried the bare token OK followed by a tab, which was parsed as OK=1;
\* without the bare token ok is False.
C21_OkFollowsSuccessToken ==
    (Answered("L") /\ session # <<>>) =>
       LET j == json(ReplaceOK(resp[1].body))
       IN  /\ session[1].ok <=> HasBareOK(resp[1].body)
           /\ session[1].ok <=> (<<"OK">> \in DOMAIN j /\ j[<<"OK">>] = <<"1">>)

C21_Witness ==
    /\ apc = <<"returned", "">> /\ Answered("L") /\ session # <<>>
    /\ HasBareOK(resp[1].body) /\ session[1].ok

\* C22: an A response whose body has no field equal to KEY, or fewer than
\* two fields, makes authenticate_account raise AuthenticationError.
C22_NoKeyFieldIsAuthenticationError ==
    Answered("A") =>
       LET fields == split(resp[1].body)
       IN  ((\A i \in 1..Len(fields) : fields[i] # <<"KEY">>)
            \/ Len(fields) < 2)
              => authErr = "AuthenticationError"

\* The body of a line as the server sent it: the line without its action
\* code, without one tab right after the code and without its line feed.
SentBody(action, line) ==
    LET a == IF line # <<>> /\ Head(line) = action THEN Tail(line) ELSE line
        b == IF a # <<>> /\ Head(a) = "\t" THEN Tail(a) ELSE a
    IN  IF b # <<>> /\ b[Len(b)] = "\n" THEN SubSeq(b, 1, Len(b) - 1) ELSE b

\* C23: the login key of a successful A response is the second-to-last
\* tab-separated field of the body as the server sent it.
C23_KeyIsSecondToLastFieldSent ==
    (Answered("A") /\ authErr = "none") =>
       LET sent == split(SentBody("A", resp[1].line))
       IN  /\ Len(sent) >= 2
           /\ authenticate_account(resp[1].body).key = sent[Len(sent) - 1]

\* The fields of the latest response after the four leading ones, by pairs.
PairFields == SubSeq(split(resp[1].body), 5, Len(split(resp[1].body)))
PairCount == Len(PairFields) \div 2

\* C24 as stated: the pairs are (name, code), and the mapping returned
\* takes the first field of each pair to the second.
C24_NameThenCodePairs ==
    (Answered("C") /\ characters # <<>>) =>
       /\ DOMAIN characters[1] = {PairFields[2 * i - 1] : i \in 1..PairCount}
       /\ \A i \in 1..PairCount :
             characters[1][PairFields[2 * i - 1]] = PairFields[2 * i]

\* C24: for a C response of four metadata fields followed by alternating
\* (code, name) pairs, the mapping returned takes each pair's name to that
\* pair's code and has nothing else in it, so none of the four leading
\* fields.
C24_CodeThenNamePairs ==
    (Answered("C") /\ characters # <<>>) =>
       /\ DOMAIN characters[1] = {PairFields[2 * i] : i \in 1..PairCount}
       /\ \A i \in 1..PairCount :
             characters[1][PairFields[2 * i]] = PairFields[2 * i - 1]

C24_Witness ==
    /\ Answered("C") /\ characters # <<>>
    /\ Cardinality(DOMAIN characters[1]) = 2
    /\ characters[1][<<"A", "l">>] = <<"W2">>

\* C25: for every password and hash key, encrypt_password gives a result,
\* and its byte at each position is (((c - 32) XOR k) + 32) mod 256.
C25_ObfuscationIsTotalModulo256 ==
    Answered("K") =>
       LET cs == EncodeText(cred.password)
           ks == EncodeText(resp[1].body)
           e == encrypt_password(cred.password, resp[1].body)
       IN  /\ e.err = "none"
           /\ Len(e.bytes) = Min(Len(cs), Len(ks))
           /\ \A i \in 1..Len(e.bytes) :
                 e.bytes[i] = (XorInt(cs[i] - 32, ks[i]) + 32) % 256

\* C26: the body of every Response is the line read without its action
\* code, one tab right after it and its line feed, and is otherwise the
\* line as it was sent.
C26_BodyKeepsEverythingElse ==
    resp # <<>> => resp[1].body = SentBody(resp[1].action, resp[1].line)

\* What the write loop has handed to the transport: outWire without the
\* quit messages of close().
LoopWrites == SelectSeq(outWire, LAMBDA b : b # "exit\r\n")

\* How many items the write loop has taken off the outbound channel.
TakenByWriteLoop == Len(forwarded) - Len(game_server_write)

\* C27: the transport was handed, in call order, the text of every write
\* call that did not fail, each followed by one "\r\n": the texts of the
\* write loop in the order it took them, whole and none twice, and the quit
\* messages of close() after them.
C27_WritesReachTransportInCallOrder ==
    /\ Len(LoopWrites) <= Len(forwarded)
    /\ \A i \in 1..Len(LoopWrites) : LoopWrites[i] = forwarded[i] \o "\r\n"
    /\ Len(LoopWrites) \in {TakenByWriteLoop - 1, TakenByWriteLoop}
    /\ pc["write"] = "get" => Len(LoopWrites) = TakenByWriteLoop
    /\ \A i, j \in 1..Len(outWire) :
          (i < j /\ outWire[i] = "exit\r\n") => outWire[j] = "exit\r\n"
    /\ Len(outWire) - Len(LoopWrites) <= closeCalls

C27_Witness ==
    /\ Len(LoopWrites) = 2 /\ Len(outWire) = 3
    /\ transport = "ok"

\* C28: a second close of a stream that a first close has closed does not
\* raise and sends nothing: one quit message is all the transport was
\* handed by the two calls.
C28_SecondCloseIsSilent ==
    (closeCalls = 2 /\ Len(outWire) > Len(LoopWrites)) =>
       /\ ~closeRaised
       /\ Len(outWire) = Len(LoopWrites) + 1
       /\ ~is_open

\* Server s is the only one of its process, and no other Topic is in use.
SoleServer(s) ==
    /\ Created(s)
    /\ \A t \in Servers \ {s} : ~Created(t)
    /\ topics["bare"] = <<>>

LoginErrors == {"OSError", "IncompleteReadError", "AuthenticationError",
                "KeyError", "ValueError"}

\* C30: what connect() has written on the game link is the start of: the
\* session key and a line feed, the identification line, <c> and a line
\* feed, twice; it returns only with all four written; and it ends without
\* returning only when the login or the opening of the link failed.
C30_BootstrapWritesInOrder ==
    /\ gameWire # <<>> =>
          /\ session # <<>>
          /\ IsPrefix(gameWire, BootstrapWrites(session[1].key))
    /\ cpc = "returned" => Len(gameWire) = 4
    /\ cpc = "raised" => connectErr \in LoginErrors

\* The field has no "=" before position i.
FirstEqualsAt(f, i) == f[i] = "=" /\ \A j \in 1..(i - 1) : f[j] # "="

\* C31: for a body of fields f0 .. fn-1, pairs() returns the tuples
\* (f[2i], f[2i+1]) for every i with 2i+1 < n, in that order, and
\* pairs(swap=True) returns the tuples (f[2i+1], f[2i]).
C31_PairsOfAlternatingFields ==
    (rcall # <<>> /\ rcall[1] = "pairs") =>
       LET n == Len(rfields)
       IN  /\ Len(rresult) = n \div 2
           /\ \A i \in 1..(n \div 2) :
                 rresult[i] = IF rcall[2]
                              THEN <<rfields[2 * i], rfields[2 * i - 1]>>
                              ELSE <<rfields[2 * i - 1], rfields[2 * i]>>

C31_Witness ==
    /\ rcall = <<"pairs", TRUE>>
    /\ rfields = << <<"a">>, <<"b">>, <<"a", "=", "b">>, <<>> >>
    /\ rresult = << <<<<"b">>, <<"a">>>>, <<<<>>, <<"a", "=", "b">>>> >>

\* C32: json() of a body with "=" in it maps, for each field, the text
\* before the field's first "=" to the text after it (the whole field to
\* the empty text when the field has no "="); json() of a body without "="
\* maps field 2i to field 2i+1.  Of two fields or pairs with the same key
\* the later one gives the value, as in any dict.
C32_JsonOfKeyValueFields ==
    rcall = <<"json">> =>
       LET n == Len(rfields)
           keyed == \E i \in 1..n : \E j \in 1..Len(rfields[i]) :
                       rfields[i][j] = "="
           KeyOf(f) == IF \E j \in 1..Len(f) : f[j] = "="
                       THEN SubSeq(f, 1, (CHOOSE j \in 1..Len(f) :
                                             FirstEqualsAt(f, j)) - 1)
                       ELSE f
       IN  IF keyed
           THEN /\ DOMAIN rresult = {KeyOf(rfields[i]) : i \in 1..n}
                /\ \A i \in 1..n :
                      (\A k \in (i + 1)..n : KeyOf(rfields[k]) # KeyOf(rfields[i]))
                         => LET f == rfields[i]
                            IN  /\ \A j \in 1..Len(f) :
                                      FirstEqualsAt(f, j) =>
                                         rresult[SubSeq(f, 1, j - 1)]
                                            = SubSeq(f, j + 1, Len(f))
                                /\ (\A j \in 1..Len(f) : f[j] # "=")
                                      => rresult[f] = <<>>
           ELSE /\ DOMAIN rresult = {rfields[2 * i - 1] : i \in 1..(n \div 2)}
                /\ \A i \in 1..(n \div 2) :
                      (\A k \in (i + 1)..(n \div 2) :
                          rfields[2 * k - 1] # rfields[2 * i - 1])
                         => rresult[rfields[2 * i - 1]] = rfields[2 * i]

C32_Witness ==
    /\ rcall = <<"json">>
    /\ rfields = << <<"a", "=", "b", "=", "b">>, <<"b">>, <<"=", "a">> >>
    /\ DOMAIN rresult = {<<"a">>, <<"b">>, <<>>}
    /\ rresult[<<"a">>] = <<"b", "=", "b">>

\* C38: the rewriting of the bare OK token leaves every key=value field of
\* an L response alone: the value parsed for each key other than OK, and
\* the key of the SessionInfo returned, are the values the server sent,
\* also when a value ends with the letters OK.
C38_OnlyBareOkIsRewritten ==
    (Answered("L") /\ session # <<>>) =>
       LET sent == split(resp[1].body)
           parsed == json(ReplaceOK(resp[1].body))
       IN  \A i \in 1..Len(sent) :
              (Len(sent[i]) >= 2 /\ sent[i][2] = "=" /\ sent[i][1] # "OK") =>
                 /\ <<sent[i][1]>> \in DOMAIN parsed
                 /\ parsed[<<sent[i][1]>>] = SubSeq(sent[i], 3, Len(sent[i]))
                 /\ sent[i][1] = "KEY" =>
                       session[1].key = SubSeq(sent[i], 3, Len(sent[i]))

\* C34: is_open() is True exactly when the stream writer is neither closing
\* nor closed, so it is False as soon as the writer is closing, whether or
\* not a read has failed.
C34_OpenExactlyWhileWriterOpen == is_open <=> ~writerClosing

\* C36: the write loop calls connection.write only in a state where
\* is_open() is True: an item it takes after the stream was closed is not
\* written.
C36_NoWriteOnClosedStream ==
    [][write_game_server_events => is_open]_vars

\* C37: the _open flag never goes from False to True and leaves True only
\* by a read that failed at end of file or by close(); and once is_open()
\* is False it is False after every further step.
C37_ClosureIsMonotonic ==
    [][/\ ~conn_open => ~conn_open'
       /\ ~is_open => ~is_open'
       /\ (conn_open /\ ~conn_open') =>
             \/ closeCalls' = closeCalls + 1
             \/ (pc["read"] # "done" /\ pc'["read"] = "done")]_vars

\* is_open() is False and then the read loop read, the write loop wrote and
\* close was called again.
C37_Witness ==
    /\ ~is_open /\ closeCalls = 2 /\ closeRaised
    /\ pc["read"] = "done" /\ pc["write"] = "done"
    /\ TakenByWriteLoop = 1 /\ LoopWrites = <<>>

\* A relayed command waits to be written and an arrived message waits to be
\* published, both loops being suspended and the stream in order.
CommandAndMessagePending ==
    /\ runState = "running"
    /\ game_server_write # <<>> /\ pc["write"] = "get"
    /\ inbox # <<>> /\ pc["read"] \in {"start", "read"}
    /\ transport = "ok" /\ ~writerClosing

\* C33: the loops impose no order between inbound and outbound traffic:
\* whenever a command and a message are both pending, the write of the
\* command and the publishing of the message can each be the next step, and
\* neither step touches what the other one reads or takes away its turn, so
\* the other order of the two is an execution too.
C33_NoOrderBetweenInboundAndOutbound ==
    /\ [](CommandAndMessagePending =>
             /\ ENABLED write_game_server_events
             /\ ENABLED read_game_server_events)
    /\ [][write_game_server_events =>
             UNCHANGED <<inbox, game_event_raw, fe_story_view, pc["read"],
                         transport, peer, writerClosing>>]_vars
    /\ [][read_game_server_events =>
             UNCHANGED <<game_server_write, outWire, pc["write"], transport,
                         writerClosing>>]_vars

\* The command was written while the message that arrived before it was
\* written is still to be published.
C33_Witness ==
    /\ LoopWrites = <<"look\r\n">> /\ game_server_write = <<>>
    /\ inbox = <<"hi</prompt>">> /\ game_event_raw = <<>>
    /\ pc["read"] = "start" /\ runState = "running"
    /\ transport = "ok" /\ ~writerClosing

\* The message was published while the command relayed before it was
\* published is still to be written.
C33_PublishedFirst ==
    /\ game_event_raw = <<"hi</prompt>">> /\ inbox = <<>>
    /\ game_server_write = <<"look">> /\ outWire = <<>>
    /\ pc["write"] = "get" /\ runState = "running"
    /\ transport = "ok" /\ ~writerClosing

\* C35: a publish step runs to its return, with one put per subscriber made
\* in that step; so in every state between steps, a call that has put its
\* event on one subscriber's channel has put it on the channel of every
\* subscriber the topic had at that call.
C35_FanOutIsOneStep ==
    /\ [][\A t \in Topics :
            delivered'[t] # delivered[t] =>
               /\ calls'[t] = calls[t] + 1
               /\ Len(delivered'[t]) = Len(delivered[t]) + Len(topics[t])]_vars
    /\ [](\A t \in Topics :
            \A k \in 1..Len(delivered[t]) :
               \A i \in 1..Len(topics[t]) :
                  subscribedAfter[t][i] < delivered[t][k].call =>
                     \E m \in 1..Len(delivered[t]) :
                        /\ delivered[t][m].call = delivered[t][k].call
                        /\ delivered[t][m].sub = i
                        /\ delivered[t][m].event = delivered[t][k].event)

\* Two events went to the two channels of a Server, each in one step.
C35_Witness ==
    /\ calls["s2"] = 2 /\ Len(topics["s2"]) = 2
    /\ topics["s2"][1] # topics["s2"][2]
    /\ Len(delivered["s2"]) = 4
    /\ channels[topics["s2"][1]] = <<"e1", "e2">>
    /\ channels[topics["s2"][2]] = <<"e1", "e2">>

=============================================================================
